---- MODULE Spec2Model ----
(***************************************************************************)
(* State-machine model of the AI companion voice pipeline:                 *)
(*   src/src/talk_to_ai.py            AICompanion (session orchestration)  *)
(*   src/src/wake_word_detector_lib.py WakeWordDetector (wake-word gate)   *)
(*   src/src/google_cloud_speech_lib.py SpeechRecognizer (capture stream)  *)
(*   src/src/google_cloud_tts_lib.py  TextToSpeech (playback queue)        *)
(* Text values (str) are sequences of one-character strings.               *)
(***************************************************************************)
EXTENDS Integers, Sequences, FiniteSets, TLC

\* ------------------------------------------------------------------ bounds
MaxThreads == 2   \* command-thread slots available to threading.Thread
MaxDetections == 2 \* frames for which the detector reports a keyword
MaxTally   == 6   \* largest overflow tally followed
MaxResults == 2   \* results one recognition stream yields before it ends
MaxTurns   == 1   \* non-empty final transcripts the recognizer produces in a run
MaxChunks  == 2   \* chunks one generated response consists of
MaxClock   == 222 \* latest wall-clock second considered
MaxFrames  == 2   \* blocks held by the queue of SpeechToText
MaxSentinels == 1 \* sentinels in audio_queue when the with-block raises

Threads == 1..MaxThreads

\* --------------------------------------------------------- program constants
MAX_ERRORS       == 5
ERROR_RESET_TIME == 60
StartTime        == 100   \* time.time() when the process starts (epoch seconds, > 60)

\* AICompanion passes keywords=[wake_keyword]
Keywords == <<"bumblebee">>

\* ------------------------------------------------------------ str operations
WhiteSpace  == {" ", "\t", "\n", "\r"}
Terminators == {".", "!", "?"}

UpperChars == <<"A","B","C","D","E","F","G","H","I","J","K","L","M",
                "N","O","P","Q","R","S","T","U","V","W","X","Y","Z">>
LowerChars == <<"a","b","c","d","e","f","g","h","i","j","k","l","m",
                "n","o","p","q","r","s","t","u","v","w","x","y","z">>

\* Variant of LowerChar that leaves the case as it is.
LowerCharKeepCase(c) == c

\* str.lower() on one character
LowerChar(c) ==
    IF \E i \in 1..Len(UpperChars) : UpperChars[i] = c
    THEN LowerChars[CHOOSE i \in 1..Len(UpperChars) : UpperChars[i] = c]
    ELSE c

\* str.lower()
Lower(s) == [i \in 1..Len(s) |-> LowerChar(s[i])]

RECURSIVE LStrip(_)
LStrip(s) == IF s # <<>> /\ Head(s) \in WhiteSpace THEN LStrip(Tail(s)) ELSE s

RECURSIVE RStrip(_)
RStrip(s) == IF s # <<>> /\ s[Len(s)] \in WhiteSpace
             THEN RStrip(SubSeq(s, 1, Len(s) - 1)) ELSE s

\* str.strip()
Strip(s) == RStrip(LStrip(s))

\* any(p in sentence_buffer for p in ".!?")
HasTerminator(s) == \E i \in 1..Len(s) : s[i] \in Terminators

\* re.split(r"(?<=[.!?])\s*", s): cut after every terminator and drop the
\* run of whitespace that follows it; the piece after the last cut is the
\* last element (possibly empty).
RECURSIVE SplitFrom(_, _, _)
SplitFrom(s, cur, skipping) ==
    IF s = <<>> THEN <<cur>>
    ELSE IF skipping /\ Head(s) \in WhiteSpace THEN SplitFrom(Tail(s), cur, TRUE)
    ELSE IF Head(s) \in Terminators
         THEN <<Append(cur, Head(s))>> \o SplitFrom(Tail(s), <<>>, TRUE)
         ELSE SplitFrom(Tail(s), Append(cur, Head(s)), FALSE)

\* Variant of ReSplit that splits after the first terminator only.
ReSplitOnce(s) ==
    IF HasTerminator(s)
    THEN LET i == CHOOSE k \in 1..Len(s) :
                     /\ s[k] \in Terminators
                     /\ \A m \in 1..(k - 1) : s[m] \notin Terminators
         IN  <<SubSeq(s, 1, i), SubSeq(s, i + 1, Len(s))>>
    ELSE <<s>>

ReSplit(s) == SplitFrom(s, <<>>, FALSE)

\* "".join(list)
RECURSIVE Concat(_)
Concat(ss) == IF ss = <<>> THEN <<>> ELSE Head(ss) \o Concat(Tail(ss))

\* the text with every whitespace character removed
RemoveWs(s) == SelectSeq(s, LAMBDA c : c \notin WhiteSpace)

IsPrefix(p, s) == Len(p) <= Len(s) /\ SubSeq(s, 1, Len(p)) = p

\* ------------------------------------------------------------------- state
VARIABLES
    \* AICompanion
    listening_for_command,  \* self.listening_for_command
    cmd,                    \* command threads: slot -> locals of listen_for_command
    run_pc,                 \* position of the main thread in AICompanion.run
    run_exc,                \* exception travelling out of the with-block of run
    \* WakeWordDetector
    wake_stream,            \* self.audio_stream: "stopped" | "active"
    porcupine,              \* self.porcupine: "none" | "live" | "deleted"
    error_count,            \* self.error_count
    last_error_time,        \* self.last_error_time
    clock,                  \* time.time()
    hits,                   \* keyword indexes >= 0 returned for status-free frames
    calls,                  \* keywords the trigger callback was invoked with
    overflow_times,         \* times of the latest MAX_ERRORS overflow frames
    \* SpeechRecognizer
    sr_stream,              \* self.stream: "none" | "open" | "closed"
    sr_audio,               \* self.audio: "none" | "live" | "terminated"
    turns,                  \* non-empty final transcripts produced so far
    \* TextToSpeech
    audio_queue,            \* self.audio_queue: items not yet taken by get()
    unfinished,             \* self.audio_queue.unfinished_tasks
    playing,                \* self.playing (threading.Event)
    pl_pc,                  \* position of the player thread in _play_audio
    pl_item,                \* audio_chunk held by the player thread
    tts_stream,             \* self.stream: "none" | "open" | "closed"
    tts_audio,              \* self.audio: "none" | "live" | "terminated"
    put_count,              \* audio buffers enqueued by speak() so far
    written,                \* ids of the buffers passed to stream.write, in order
    \* SpeechToText
    stt_pc,                 \* position of process_audio: "init" | "get" | "accept" | "stopped"
    stt_q,                  \* number of frames in self.q
    stt_error_count,        \* self.error_count
    stt_last_error_time,    \* self.last_error_time
    \* process environment
    env                     \* os.environ after load_dotenv(): variable -> value

vars == <<listening_for_command, cmd, run_pc, run_exc,
          wake_stream, porcupine, error_count, last_error_time, clock,
          hits, calls, overflow_times,
          sr_stream, sr_audio, turns,
          audio_queue, unfinished, playing, pl_pc, pl_item, tts_stream,
          tts_audio, put_count, written,
          stt_pc, stt_q, stt_error_count, stt_last_error_time, env>>

sessionVars == <<listening_for_command, cmd>>
runVars     == <<run_pc, run_exc>>
gateVars    == <<wake_stream, porcupine, error_count, last_error_time,
                 hits, calls, overflow_times>>
srVars      == <<sr_stream, sr_audio, turns>>
queueVars   == <<audio_queue, unfinished, put_count>>
playerVars  == <<playing, pl_pc, pl_item, tts_stream, tts_audio, written>>
ttsVars     == <<queueVars, playerVars>>
sttVars     == <<stt_pc, stt_q, stt_error_count, stt_last_error_time>>

\* command_text is None (<<>>) or a one-element tuple holding the text
None == <<>>

\* locals of a command thread that has not been started or has ended;
\* `spoken` lists the texts passed to tts.speak in the current loop iteration,
\* `prev` tells how the previous iteration ended ("turn", "missed", "bye"),
\* `err` whether the thread is in, or ended through, its except clause,
\* `accepted` holds the (transcript, is_final) pair that set command_text,
\* `sent` the texts passed to chat.send_message in the current iteration and
\* `last` tells of the result consumed last in the running capture whether it
\* was final and whether its text was blank; `last_put` is the number of the
\* latest buffer the thread has enqueued through tts.speak (0 when none)
NoThread ==
    [pc |-> "none", command_text |-> None, results |-> 0, chunks |-> 0,
     response_text |-> <<>>, sentence_buffer |-> <<>>, sentences |-> <<>>,
     spoken |-> <<>>, prev |-> "none", err |-> FALSE,
     accepted |-> None, sent |-> <<>>, last |-> None, last_put |-> 0]

\* the queue sentinel put by __exit__, and the "no chunk held" value
Sentinel == [kind |-> "None", id |-> 0, text |-> <<>>]
NoItem   == [kind |-> "empty", id |-> 0, text |-> <<>>]

\* response.audio_content of synthesize_speech for `text`, as the n-th buffer
AudioContent(n, text) == [kind |-> "audio", id |-> n, text |-> text]

\* state after AICompanion.__init__ and the constructors it calls
Init ==
    /\ listening_for_command = FALSE
    /\ cmd = [t \in Threads |-> NoThread]
    /\ run_pc = "enter_wake"
    /\ run_exc = "none"
    /\ wake_stream = "stopped"
    /\ porcupine = "live"
    /\ error_count = 0
    /\ last_error_time = 0
    /\ clock = StartTime
    /\ hits = <<>>
    /\ calls = <<>>
    /\ overflow_times = <<>>
    /\ sr_stream = "none"
    /\ sr_audio = "none"
    /\ turns = 0
    /\ audio_queue = <<>>
    /\ unfinished = 0
    /\ playing = FALSE
    /\ pl_pc = "none"
    /\ pl_item = NoItem
    /\ tts_stream = "none"
    /\ tts_audio = "none"
    /\ put_count = 0
    /\ written = <<>>
    /\ stt_pc = "init"
    /\ stt_q = 0
    /\ stt_error_count = 0
    /\ stt_last_error_time = 0
    /\ env = [GOOGLE_API_KEY |-> "key", PICOVOICE_ACCESS_KEY |-> "key"]

\* -------------------------------------------------------- wake-word gate
LiveThreads == {t \in Threads : cmd[t].pc # "none"}
FreeSlot    == CHOOSE t \in Threads : cmd[t].pc = "none"

\* Variant of OnWakeWord without the listening_for_command test.
OnWakeWordUnguarded(keyword) ==
    /\ \E t \in Threads : cmd[t].pc = "none"
    /\ listening_for_command' = TRUE
    /\ cmd' = [cmd EXCEPT ![FreeSlot] = [NoThread EXCEPT !.pc = "loop"]]

\* AICompanion.on_wake_word: start a command thread unless one is listening
OnWakeWord(keyword) ==
    IF ~listening_for_command
    THEN /\ \E t \in Threads : cmd[t].pc = "none"
         /\ listening_for_command' = TRUE
         /\ cmd' = [cmd EXCEPT ![FreeSlot] = [NoThread EXCEPT !.pc = "loop"]]
    ELSE UNCHANGED sessionVars

\* the last n elements of a sequence
LastN(seq, n) == SubSeq(seq, IF Len(seq) > n THEN Len(seq) - n + 1 ELSE 1, Len(seq))

\* the overflow tally of the status branch of the audio callbacks
OverflowTally(count, last, now) ==
    IF now - last > ERROR_RESET_TIME THEN 1 ELSE count + 1

\* Variant of Detect that invokes the callback for every processed frame.
DetectAlways(keyword_index, fails) ==
    IF fails
    THEN UNCHANGED <<hits, calls, sessionVars>>
    ELSE /\ Len(calls) < MaxDetections
         /\ hits' = IF keyword_index >= 0 THEN Append(hits, keyword_index) ELSE hits
         /\ calls' = Append(calls, Keywords[1])
         /\ OnWakeWord(Keywords[1])

\* the try-block of _audio_callback: run the detector on the frame and invoke
\* the callback for a non-negative index; an exception is printed and dropped.
\* On a handle that __exit__ has deleted, process() works on released memory:
\* it may raise (`fails`) or return any index, as for a live handle.
Detect(keyword_index, fails) ==
    IF fails
    THEN UNCHANGED <<hits, calls, sessionVars>>
    ELSE IF keyword_index >= 0
         THEN /\ Len(hits) < MaxDetections
              /\ hits' = Append(hits, keyword_index)
              /\ calls' = Append(calls, Keywords[keyword_index + 1])
              /\ OnWakeWord(Keywords[keyword_index + 1])
         ELSE UNCHANGED <<hits, calls, sessionVars>>

\* WakeWordDetector._audio_callback for one frame: `status` is the stream
\* status ("none" when empty), keyword_index the detector's answer and
\* `fails` whether porcupine.process raises
AudioCallback(status, keyword_index, fails) ==
    /\ wake_stream = "active"
    /\ IF status # "none"
       THEN /\ IF status = "overflow"
               THEN /\ error_count < MaxTally
                    /\ error_count' = OverflowTally(error_count, last_error_time, clock)
                    /\ last_error_time' = clock
                    /\ overflow_times' = LastN(Append(overflow_times, clock), MAX_ERRORS)
               ELSE UNCHANGED <<error_count, last_error_time, overflow_times>>
            /\ UNCHANGED <<hits, calls, sessionVars>>
       ELSE /\ Detect(keyword_index, fails)
            /\ UNCHANGED <<error_count, last_error_time, overflow_times>>
    /\ UNCHANGED <<wake_stream, porcupine, clock, runVars, srVars, sttVars, env, ttsVars>>

\* time passes
Tick(dt) ==
    /\ clock + dt <= MaxClock
    /\ clock' = clock + dt
    /\ UNCHANGED <<sessionVars, runVars, gateVars, srVars, sttVars, env, ttsVars>>

\* ------------------------------------------------- TextToSpeech (playback)
\* Variant of QueuePut that puts the item at the head of the queue.
QueuePutFront(item) ==
    /\ audio_queue' = <<item>> \o audio_queue
    /\ unfinished' = unfinished + 1

\* queue.Queue.put: append the item and count it as an unfinished task
QueuePut(item) ==
    /\ audio_queue' = Append(audio_queue, item)
    /\ unfinished' = unfinished + 1

\* TextToSpeech.speak(text) when synthesize_speech succeeds
Speak(text) ==
    IF text = <<>>
    THEN UNCHANGED queueVars
    ELSE /\ QueuePut(AudioContent(put_count + 1, text))
         /\ put_count' = put_count + 1

\* Variant of WaitReturns that only looks whether the queue is empty.
WaitReturnsOnEmptyQueue == audio_queue = <<>>

\* TextToSpeech.wait returns: audio_queue.join() finds no unfinished task
WaitReturns == unfinished = 0

\* _play_audio: while self.playing.is_set()
PlayerTest ==
    /\ pl_pc = "test"
    /\ pl_pc' = IF playing THEN "get" ELSE "done"
    /\ UNCHANGED <<sessionVars, runVars, gateVars, clock, srVars, sttVars, env, queueVars,
                   playing, pl_item, tts_stream, tts_audio, written>>

\* _play_audio: audio_queue.get(timeout=0.1); Empty continues the loop, the
\* sentinel is marked done and ends the loop
PlayerGet ==
    /\ pl_pc = "get"
    /\ IF audio_queue = <<>>
       THEN /\ pl_pc' = "test"
            /\ UNCHANGED <<audio_queue, unfinished, pl_item>>
       ELSE /\ audio_queue' = Tail(audio_queue)
            /\ IF Head(audio_queue) = Sentinel
               THEN /\ unfinished' = unfinished - 1
                    /\ pl_pc' = "done"
                    /\ UNCHANGED pl_item
               ELSE /\ pl_item' = Head(audio_queue)
                    /\ pl_pc' = "write"
                    /\ UNCHANGED unfinished
    /\ UNCHANGED <<sessionVars, runVars, gateVars, clock, srVars, sttVars, env, put_count,
                   playing, tts_stream, tts_audio, written>>

\* _play_audio: self.stream.write(audio_chunk); an exception ends the thread
PlayerWrite(fails) ==
    /\ pl_pc = "write"
    /\ IF fails
       THEN /\ pl_pc' = "dead"
            /\ UNCHANGED written
       ELSE /\ pl_pc' = "written"
            /\ written' = Append(written, pl_item.id)
    /\ UNCHANGED <<sessionVars, runVars, gateVars, clock, srVars, sttVars, env, queueVars,
                   playing, pl_item, tts_stream, tts_audio>>

\* _play_audio: self.audio_queue.task_done() after the write
PlayerTaskDone ==
    /\ pl_pc = "written"
    /\ unfinished' = unfinished - 1
    /\ pl_item' = NoItem
    /\ pl_pc' = "test"
    /\ UNCHANGED <<sessionVars, runVars, gateVars, clock, srVars, sttVars, env, audio_queue,
                   put_count, playing, tts_stream, tts_audio, written>>

\* ---------------------------------------------------- AICompanion.__init__
\* values of os.getenv(name): None ("unset"), "" ("empty") or a key ("key")
EnvValues == {"unset", "empty", "key"}

\* `not value` for a value of os.getenv
Falsy(value) == value \in {"unset", "empty"}

\* the state before AICompanion is constructed, for any environment
MainInit ==
    /\ listening_for_command = FALSE
    /\ cmd = [t \in Threads |-> NoThread]
    /\ run_pc = "init"
    /\ run_exc = "none"
    /\ wake_stream = "stopped"
    /\ porcupine = "none"
    /\ error_count = 0
    /\ last_error_time = 0
    /\ clock = StartTime
    /\ hits = <<>>
    /\ calls = <<>>
    /\ overflow_times = <<>>
    /\ sr_stream = "none"
    /\ sr_audio = "none"
    /\ turns = 0
    /\ audio_queue = <<>>
    /\ unfinished = 0
    /\ playing = FALSE
    /\ pl_pc = "none"
    /\ pl_item = NoItem
    /\ tts_stream = "none"
    /\ tts_audio = "none"
    /\ put_count = 0
    /\ written = <<>>
    /\ stt_pc = "init"
    /\ stt_q = 0
    /\ stt_error_count = 0
    /\ stt_last_error_time = 0
    /\ env \in [{"GOOGLE_API_KEY", "PICOVOICE_ACCESS_KEY"} -> EnvValues]

initFrame == <<sessionVars, wake_stream, error_count, last_error_time, hits, calls,
               overflow_times, clock, srVars, sttVars, env, ttsVars>>

\* __init__: api_key = os.getenv("GOOGLE_API_KEY"); without it ValueError,
\* else the Gemini model and chat are set up
InitGemini ==
    /\ run_pc = "init"
    /\ LET api_key == env["GOOGLE_API_KEY"]
       IN  IF Falsy(api_key)
           THEN /\ run_exc' = "ValueError: GOOGLE_API_KEY not found"
                /\ run_pc' = "failed"
           ELSE /\ run_pc' = "init_wake"
                /\ UNCHANGED run_exc
    /\ UNCHANGED <<porcupine, initFrame>>

\* __init__: access_key = os.getenv("PICOVOICE_ACCESS_KEY"); `if not api_key`
\* raises the ValueError; else WakeWordDetector(access_key, ...), in which
\* the device lookup (`fails` = "device"), pvporcupine.create ("create") or
\* sd.InputStream ("stream") may raise
InitWakeDetector(fails) ==
    /\ run_pc = "init_wake"
    /\ LET api_key == env["GOOGLE_API_KEY"]
           access_key == env["PICOVOICE_ACCESS_KEY"]
       IN  IF Falsy(api_key)
           THEN /\ run_exc' = "ValueError: PICOVOICE_ACCESS_KEY not found"
                /\ run_pc' = "failed"
                /\ UNCHANGED porcupine
           ELSE /\ porcupine' = IF fails \in {"no", "stream"} THEN "live" ELSE porcupine
                /\ run_exc' = CASE fails = "no" -> run_exc
                                 [] fails = "device" -> "RuntimeError: No working input device"
                                 [] OTHER -> "RuntimeError: Failed to initialize wake word detector"
                /\ run_pc' = IF fails = "no" THEN "init_tts" ELSE "failed"
    /\ UNCHANGED initFrame

\* __init__: SpeechRecognizer(...) and TextToSpeech(), whose client
\* constructor may raise; then main calls run()
InitTts(fails) ==
    /\ run_pc = "init_tts"
    /\ IF fails
       THEN /\ run_exc' = "Error: TextToSpeechClient"
            /\ run_pc' = "failed"
       ELSE /\ run_pc' = "enter_wake"
            /\ UNCHANGED run_exc
    /\ UNCHANGED <<porcupine, initFrame>>

\* --------------------------------------------------------- AICompanion.run
\* with self.wake_detector: WakeWordDetector.__enter__ -> start()
RunEnterWake ==
    /\ run_pc = "enter_wake"
    /\ wake_stream' = "active"
    /\ run_pc' = "enter_tts"
    /\ UNCHANGED <<sessionVars, run_exc, porcupine, error_count, last_error_time,
                   hits, calls, overflow_times, clock, srVars, sttVars, env, ttsVars>>

\* with self.tts: TextToSpeech.__enter__ creates the PyAudio instance and
\* opens the output stream; when opening the stream raises, the exception
\* leaves the with statement through WakeWordDetector.__exit__
RunEnterTts(fails) ==
    /\ run_pc = "enter_tts"
    /\ IF fails
       THEN /\ run_exc' = "exc"
            /\ run_pc' = "wake_exit"
            /\ tts_audio' = "live"
            /\ UNCHANGED <<playing, pl_pc, tts_stream>>
       ELSE /\ tts_audio' = "live"
            /\ tts_stream' = "open"
            /\ playing' = TRUE
            /\ pl_pc' = "test"
            /\ run_pc' = "body"
            /\ UNCHANGED run_exc
    /\ UNCHANGED <<sessionVars, gateVars, clock, srVars, sttVars, env, queueVars, pl_item, written>>

\* KeyboardInterrupt while the main thread sleeps in the with-block
RunInterrupt ==
    /\ run_pc = "body"
    /\ run_exc' = "kbd"
    /\ run_pc' = "tts_exit"
    /\ UNCHANGED <<sessionVars, gateVars, clock, srVars, sttVars, env, ttsVars>>

\* sentinels waiting in audio_queue
Sentinels == Cardinality({i \in DOMAIN audio_queue : audio_queue[i] = Sentinel})

\* An exception other than KeyboardInterrupt reaches the with statement while
\* the main thread is in the with-block (the case of `except Exception`);
\* it happens while fewer than MaxSentinels sentinels are waiting.
RunBodyRaise ==
    /\ run_pc = "body"
    /\ Sentinels < MaxSentinels
    /\ run_exc' = "exc"
    /\ run_pc' = "tts_exit"
    /\ UNCHANGED <<sessionVars, gateVars, clock, srVars, sttVars, env, ttsVars>>

\* Variant of TtsExitBegin that neither clears the flag nor puts the sentinel.
TtsExitBeginNoSignal ==
    /\ run_pc = "tts_exit"
    /\ run_pc' = "tts_join"
    /\ UNCHANGED <<sessionVars, run_exc, gateVars, clock, srVars, sttVars, env, ttsVars>>

\* TextToSpeech.__exit__: playing.clear(); audio_queue.put(None)
TtsExitBegin ==
    /\ run_pc = "tts_exit"
    /\ playing' = FALSE
    /\ QueuePut(Sentinel)
    /\ run_pc' = "tts_join"
    /\ UNCHANGED <<sessionVars, run_exc, gateVars, clock, srVars, sttVars, env, put_count,
                   pl_pc, pl_item, tts_stream, tts_audio, written>>

\* TextToSpeech.__exit__: player_thread.join() returns, then the stream is
\* stopped and closed and PyAudio terminated
TtsExitJoin ==
    /\ run_pc = "tts_join"
    /\ pl_pc \in {"none", "done", "dead"}
    /\ tts_stream' = "closed"
    /\ tts_audio' = "terminated"
    /\ run_pc' = "wake_exit"
    /\ UNCHANGED <<sessionVars, run_exc, gateVars, clock, srVars, sttVars, env, queueVars,
                   playing, pl_pc, pl_item, written>>

\* WakeWordDetector.__exit__: stop(); porcupine.delete(); then the except
\* clauses of run: KeyboardInterrupt breaks, any other exception recovers
WakeExit ==
    /\ run_pc = "wake_exit"
    /\ wake_stream' = "stopped"
    /\ porcupine' = "deleted"
    /\ run_pc' = IF run_exc = "kbd" THEN "done" ELSE "recover"
    /\ run_exc' = "none"
    /\ UNCHANGED <<sessionVars, error_count, last_error_time, hits, calls,
                   overflow_times, clock, srVars, sttVars, env, ttsVars>>

\* except Exception: time.sleep(0.5), then the while-loop enters the
\* with statement again
RunRecover ==
    /\ run_pc = "recover"
    /\ run_pc' = "enter_wake"
    /\ UNCHANGED <<sessionVars, run_exc, gateVars, clock, srVars, sttVars, env, ttsVars>>

\* ------------------------------------------- AICompanion.listen_for_command
StopPhrases == { <<"g","o","o","d","b","y","e">>, <<"e","x","i","t">>,
                 <<"s","t","o","p">> }

Goodbye == <<"G","o","o","d","b","y","e","!">>

\* command_text.lower().strip() in ["goodbye", "exit", "stop"]
IsStopPhrase(command_text) == Strip(Lower(command_text)) \in StopPhrases

\* every variable a command-thread step leaves alone unless it names it
cmdFrame == <<runVars, gateVars, clock, playerVars, sttVars, env>>

\* while self.listening_for_command: (command_text = None at the loop head)
LoopTest(t) ==
    /\ cmd[t].pc = "loop"
    /\ cmd' = [cmd EXCEPT ![t] =
                 IF listening_for_command
                 THEN [@ EXCEPT !.pc = "sr_enter", !.command_text = None,
                                !.results = 0, !.spoken = <<>>,
                                !.accepted = None, !.sent = <<>>, !.last = None]
                 ELSE [@ EXCEPT !.pc = "finally"]]
    /\ UNCHANGED <<listening_for_command, cmdFrame, srVars, queueVars>>

\* with self.speech_recognizer: SpeechRecognizer.__enter__; `fails` is
\* "client" when SpeechClient() raises, "open" when audio.open raises
SrEnter(t, fails) ==
    /\ cmd[t].pc = "sr_enter"
    /\ IF fails = "no"
       THEN /\ sr_audio' = "live"
            /\ sr_stream' = "open"
            /\ cmd' = [cmd EXCEPT ![t].pc = "recognize"]
       ELSE /\ sr_audio' = IF fails = "open" THEN "live" ELSE sr_audio
            /\ UNCHANGED sr_stream
            /\ cmd' = [cmd EXCEPT ![t].pc = "finally", ![t].err = TRUE]
    /\ UNCHANGED <<listening_for_command, cmdFrame, turns, queueVars>>

\* what is remembered of a consumed result
ResultSeen(transcript, is_final) ==
    <<[is_final |-> is_final, blank |-> Strip(transcript) = <<>>]>>

\* Variant of RecognizeResult that takes any result with text, final or not.
RecognizeResultAnyKind(t, transcript, is_final) ==
    /\ cmd[t].pc = "recognize"
    /\ cmd[t].results < MaxResults
    /\ IF Strip(transcript) # <<>>
       THEN /\ turns < MaxTurns
            /\ turns' = turns + 1
            /\ cmd' = [cmd EXCEPT ![t].pc = "sr_exit",
                                  ![t].command_text = <<Strip(transcript)>>,
                                  ![t].accepted = <<[transcript |-> transcript,
                                                     is_final |-> is_final]>>,
                                  ![t].last = ResultSeen(transcript, is_final),
                                  ![t].results = @ + 1]
       ELSE /\ cmd' = [cmd EXCEPT ![t].results = @ + 1,
                                  ![t].last = ResultSeen(transcript, is_final)]
            /\ UNCHANGED turns
    /\ UNCHANGED <<listening_for_command, cmdFrame, sr_stream, sr_audio, queueVars>>

\* Variant of RecognizeResult without the break after command_text is set.
RecognizeResultNoBreak(t, transcript, is_final) ==
    /\ cmd[t].pc = "recognize"
    /\ cmd[t].results < MaxResults
    /\ IF is_final /\ Strip(transcript) # <<>>
       THEN /\ turns < MaxTurns
            /\ turns' = turns + 1
            /\ cmd' = [cmd EXCEPT ![t].command_text = <<Strip(transcript)>>,
                                  ![t].accepted = <<[transcript |-> transcript,
                                                     is_final |-> is_final]>>,
                                  ![t].last = ResultSeen(transcript, is_final),
                                  ![t].results = @ + 1]
       ELSE /\ cmd' = [cmd EXCEPT ![t].results = @ + 1,
                                  ![t].last = ResultSeen(transcript, is_final)]
            /\ UNCHANGED turns
    /\ UNCHANGED <<listening_for_command, cmdFrame, sr_stream, sr_audio, queueVars>>

\* one (transcript, is_final) pair of recognize_stream(): a final result with
\* text after strip() sets command_text and breaks, anything else continues
RecognizeResult(t, transcript, is_final) ==
    /\ cmd[t].pc = "recognize"
    /\ cmd[t].results < MaxResults
    /\ IF is_final /\ Strip(transcript) # <<>>
       THEN /\ turns < MaxTurns
            /\ turns' = turns + 1
            /\ cmd' = [cmd EXCEPT ![t].pc = "sr_exit",
                                  ![t].command_text = <<Strip(transcript)>>,
                                  ![t].accepted = <<[transcript |-> transcript,
                                                     is_final |-> is_final]>>,
                                  ![t].last = ResultSeen(transcript, is_final),
                                  ![t].results = @ + 1]
       ELSE /\ cmd' = [cmd EXCEPT ![t].results = @ + 1,
                                  ![t].last = ResultSeen(transcript, is_final)]
            /\ UNCHANGED turns
    /\ UNCHANGED <<listening_for_command, cmdFrame, sr_stream, sr_audio, queueVars>>

\* recognize_stream() is exhausted (the recognition stream ended or timed
\* out) without a break
RecognizeEnd(t) ==
    /\ cmd[t].pc = "recognize"
    /\ cmd' = [cmd EXCEPT ![t].pc = "sr_exit", ![t].last = None]
    /\ UNCHANGED <<listening_for_command, cmdFrame, srVars, queueVars>>

\* recognize_stream() raises inside the with-block
RecognizeRaise(t) ==
    /\ cmd[t].pc = "recognize"
    /\ cmd' = [cmd EXCEPT ![t].pc = "sr_exit", ![t].err = TRUE, ![t].last = None]
    /\ UNCHANGED <<listening_for_command, cmdFrame, srVars, queueVars>>

\* SpeechRecognizer.__exit__: stop and close the stream, terminate PyAudio;
\* a pending exception then reaches the except clause (the count of the
\* results of the capture is not followed further)
SrExit(t) ==
    /\ cmd[t].pc = "sr_exit"
    /\ sr_stream' = "closed"
    /\ sr_audio' = "terminated"
    /\ cmd' = [cmd EXCEPT ![t].pc = IF cmd[t].err THEN "finally" ELSE "classify",
                          ![t].results = 0]
    /\ UNCHANGED <<listening_for_command, cmdFrame, turns, queueVars>>

\* Variant of Classify that ends the conversation when nothing was caught.
ClassifyEndOnMiss(t) ==
    /\ cmd[t].pc = "classify"
    /\ cmd' = [cmd EXCEPT ![t] =
                 IF cmd[t].command_text = None
                 THEN [@ EXCEPT !.pc = "finally", !.prev = "missed"]
                 ELSE IF IsStopPhrase(cmd[t].command_text[1])
                 THEN [@ EXCEPT !.pc = "bye_speak"]
                 ELSE [@ EXCEPT !.pc = "send"]]
    /\ UNCHANGED <<listening_for_command, cmdFrame, srVars, queueVars>>

\* if command_text: stop phrase / conversational turn; else "Did not catch
\* that" and the while-loop goes on
Classify(t) ==
    /\ cmd[t].pc = "classify"
    /\ cmd' = [cmd EXCEPT ![t] =
                 IF cmd[t].command_text = None
                 THEN [@ EXCEPT !.pc = "loop", !.prev = "missed"]
                 ELSE IF IsStopPhrase(cmd[t].command_text[1])
                 THEN [@ EXCEPT !.pc = "bye_speak"]
                 ELSE [@ EXCEPT !.pc = "send"]]
    /\ UNCHANGED <<listening_for_command, cmdFrame, srVars, queueVars>>

\* a call self.tts.speak(text) of thread t that moves on to `next`; when the
\* synthesizer raises the thread goes to its except clause
ThreadSpeak(t, text, fails, next) ==
    IF fails
    THEN /\ cmd' = [cmd EXCEPT ![t].pc = "finally", ![t].err = TRUE]
         /\ UNCHANGED queueVars
    ELSE /\ Speak(text)
         /\ cmd' = [cmd EXCEPT ![t] =
                      [next EXCEPT !.spoken = Append(@, text),
                                   !.last_put = IF text = <<>> THEN @ ELSE put_count + 1]]

\* self.tts.speak("Goodbye!")
ByeSpeak(t, fails) ==
    /\ cmd[t].pc = "bye_speak"
    /\ ThreadSpeak(t, Goodbye, fails, [cmd[t] EXCEPT !.pc = "bye_wait"])
    /\ UNCHANGED <<listening_for_command, cmdFrame, srVars>>

\* self.tts.wait(); break
ByeWait(t) ==
    /\ cmd[t].pc = "bye_wait"
    /\ WaitReturns
    /\ cmd' = [cmd EXCEPT ![t].pc = "finally", ![t].prev = "bye"]
    /\ UNCHANGED <<listening_for_command, cmdFrame, srVars, queueVars>>

\* self.chat.send_message(command_text, stream=True); response_text = "";
\* sentence_buffer = ""
SendMessage(t, fails) ==
    /\ cmd[t].pc = "send"
    /\ cmd' = [cmd EXCEPT ![t] =
                 IF fails
                 THEN [@ EXCEPT !.pc = "finally", !.err = TRUE,
                                !.sent = Append(@, cmd[t].command_text[1])]
                 ELSE [@ EXCEPT !.pc = "chunks", !.chunks = 0,
                                !.response_text = <<>>, !.sentence_buffer = <<>>,
                                !.sentences = <<>>,
                                !.sent = Append(@, cmd[t].command_text[1])]]
    /\ UNCHANGED <<listening_for_command, cmdFrame, srVars, queueVars>>

\* for chunk in response: the next chunk is appended to response_text and
\* sentence_buffer; with a terminator in the buffer it is split
NextChunk(t, chunk_text) ==
    /\ cmd[t].pc = "chunks"
    /\ cmd[t].chunks < MaxChunks
    /\ LET buf == cmd[t].sentence_buffer \o chunk_text
       IN  cmd' = [cmd EXCEPT ![t] =
                     [@ EXCEPT !.chunks = @ + 1,
                               !.response_text = @ \o chunk_text,
                               !.sentence_buffer = buf,
                               !.sentences = IF HasTerminator(buf) THEN ReSplit(buf) ELSE <<>>,
                               !.pc = IF HasTerminator(buf) THEN "speak" ELSE "chunks"]]
    /\ UNCHANGED <<listening_for_command, cmdFrame, srVars, queueVars>>

\* the response iterator raises while the next chunk is fetched
ChunkRaise(t) ==
    /\ cmd[t].pc = "chunks"
    /\ cmd' = [cmd EXCEPT ![t].pc = "finally", ![t].err = TRUE]
    /\ UNCHANGED <<listening_for_command, cmdFrame, srVars, queueVars>>

\* the response iterator is exhausted
EndChunks(t) ==
    /\ cmd[t].pc = "chunks"
    /\ cmd' = [cmd EXCEPT ![t].pc = "tail"]
    /\ UNCHANGED <<listening_for_command, cmdFrame, srVars, queueVars>>

\* Variant of AfterSentence that does not carry the last piece over.
AfterSentenceDropRest(c) ==
    IF Len(c.sentences) > 2
    THEN [c EXCEPT !.sentences = Tail(@)]
    ELSE [c EXCEPT !.sentences = <<>>, !.sentence_buffer = <<>>, !.pc = "chunks"]

\* locals after one iteration of `for sentence in sentences[:-1]`; after the
\* last one sentence_buffer = sentences[-1] and the chunk loop goes on
AfterSentence(c) ==
    IF Len(c.sentences) > 2
    THEN [c EXCEPT !.sentences = Tail(@)]
    ELSE [c EXCEPT !.sentences = <<>>, !.sentence_buffer = c.sentences[2],
                   !.pc = "chunks"]

\* for sentence in sentences[:-1]: if sentence.strip(): speak(sentence.strip())
SpeakSentence(t, fails) ==
    /\ cmd[t].pc = "speak"
    /\ LET sentence == Strip(Head(cmd[t].sentences))
       IN  IF sentence # <<>>
           THEN ThreadSpeak(t, sentence, fails, AfterSentence(cmd[t]))
           ELSE /\ ~fails
                /\ cmd' = [cmd EXCEPT ![t] = AfterSentence(cmd[t])]
                /\ UNCHANGED queueVars
    /\ UNCHANGED <<listening_for_command, cmdFrame, srVars>>

\* Variant of SpeakTail that speaks the remainder without testing it.
SpeakTailUnguarded(t, fails) ==
    /\ cmd[t].pc = "tail"
    /\ ThreadSpeak(t, Strip(cmd[t].sentence_buffer), fails, [cmd[t] EXCEPT !.pc = "wait"])
    /\ UNCHANGED <<listening_for_command, cmdFrame, srVars>>

\* if sentence_buffer.strip(): self.tts.speak(sentence_buffer.strip())
SpeakTail(t, fails) ==
    /\ cmd[t].pc = "tail"
    /\ LET rest == Strip(cmd[t].sentence_buffer)
       IN  IF rest # <<>>
           THEN ThreadSpeak(t, rest, fails, [cmd[t] EXCEPT !.pc = "wait"])
           ELSE /\ ~fails
                /\ cmd' = [cmd EXCEPT ![t].pc = "wait"]
                /\ UNCHANGED queueVars
    /\ UNCHANGED <<listening_for_command, cmdFrame, srVars>>

\* the locals of thread slot c when its turn is over: response_text,
\* sentence_buffer and sentences are assigned again before they are read
AfterTurn(c, pc) ==
    [c EXCEPT !.pc = pc, !.prev = "turn", !.chunks = 0, !.response_text = <<>>,
              !.sentence_buffer = <<>>, !.sentences = <<>>, !.spoken = <<>>]

\* Variant of Wait that leaves the while-loop after the turn.
WaitThenEnd(t) ==
    /\ cmd[t].pc = "wait"
    /\ WaitReturns
    /\ cmd' = [cmd EXCEPT ![t] = AfterTurn(@, "finally")]
    /\ UNCHANGED <<listening_for_command, cmdFrame, srVars, queueVars>>

\* Variant of Wait that goes on without waiting for the queue.
WaitNoJoin(t) ==
    /\ cmd[t].pc = "wait"
    /\ cmd' = [cmd EXCEPT ![t] = AfterTurn(@, "loop")]
    /\ UNCHANGED <<listening_for_command, cmdFrame, srVars, queueVars>>

\* self.tts.wait() returns; response_text is logged and the while-loop goes on
Wait(t) ==
    /\ cmd[t].pc = "wait"
    /\ WaitReturns
    /\ cmd' = [cmd EXCEPT ![t] = AfterTurn(@, "loop")]
    /\ UNCHANGED <<listening_for_command, cmdFrame, srVars, queueVars>>

\* Variant of Finally whose flag reset is skipped when an exception was raised.
FinallyOnlyOnSuccess(t) ==
    /\ cmd[t].pc = "finally"
    /\ listening_for_command' = IF cmd[t].err THEN listening_for_command ELSE FALSE
    /\ cmd' = [cmd EXCEPT ![t] = [NoThread EXCEPT !.err = cmd[t].err,
                                                  !.prev = cmd[t].prev]]
    /\ UNCHANGED <<cmdFrame, srVars, queueVars>>

\* except Exception: log; finally: self.listening_for_command = False, and
\* the thread ends (its slot keeps `err` and `prev` of the ended thread)
Finally(t) ==
    /\ cmd[t].pc = "finally"
    /\ listening_for_command' = FALSE
    /\ cmd' = [cmd EXCEPT ![t] = [NoThread EXCEPT !.err = cmd[t].err,
                                                  !.prev = cmd[t].prev]]
    /\ UNCHANGED <<cmdFrame, srVars, queueVars>>

\* ------------------------------------------------------------ SpeechToText
sttFrame == <<sessionVars, runVars, gateVars, clock, srVars, ttsVars, env>>

\* process_audio: the with statement opens and starts the RawInputStream
SttStart ==
    /\ stt_pc = "init"
    /\ stt_pc' = "get"
    /\ UNCHANGED <<stt_q, stt_error_count, stt_last_error_time, sttFrame>>

\* SpeechToText.callback for one block: an overflow status is tallied, any
\* other status is printed, a status-free block is put on the queue
SttCallback(status) ==
    /\ stt_pc \in {"get", "accept"}
    /\ IF status # "none"
       THEN /\ IF status = "overflow"
               THEN /\ stt_error_count < MaxTally
                    /\ stt_error_count' =
                          OverflowTally(stt_error_count, stt_last_error_time, clock)
                    /\ stt_last_error_time' = clock
               ELSE UNCHANGED <<stt_error_count, stt_last_error_time>>
            /\ UNCHANGED stt_q
       ELSE /\ stt_q < MaxFrames
            /\ stt_q' = stt_q + 1
            /\ UNCHANGED <<stt_error_count, stt_last_error_time>>
    /\ UNCHANGED <<stt_pc, sttFrame>>

\* process_audio: data = self.q.get() has no timeout: it returns only when a
\* block is in the queue and never raises queue.Empty
SttGet ==
    /\ stt_pc = "get"
    /\ stt_q > 0
    /\ stt_q' = stt_q - 1
    /\ stt_pc' = "accept"
    /\ UNCHANGED <<stt_error_count, stt_last_error_time, sttFrame>>

\* process_audio: AcceptWaveform and the report of the final or partial
\* result; an exception of this part is printed and the loop goes on
SttAccept(outcome) ==
    /\ stt_pc = "accept"
    /\ stt_pc' = "get"
    /\ UNCHANGED <<stt_q, stt_error_count, stt_last_error_time, sttFrame>>

\* KeyboardInterrupt in process_audio: the with statement closes the stream
SttInterrupt ==
    /\ stt_pc \in {"get", "accept"}
    /\ stt_pc' = "stopped"
    /\ UNCHANGED <<stt_q, stt_error_count, stt_last_error_time, sttFrame>>

\* ------------------------------------------------------------ specifications
\* transcripts the recognizer yields
Transcripts ==
    { <<"G","o","o","d","b","y","e">>,
      <<" ","S","T","O","P"," ">>,
      <<"e","x","i","t">>,
      <<" ","g","o","o","d","b","y","e","e">>,
      <<" ">>,
      <<>> }

\* chunk texts the generator yields
Chunks == { <<"H","i","."," ">>, <<"o","k">> }

\* steps of a command thread
CommandStep(t) ==
    \/ LoopTest(t)
    \/ \E fails \in {"no", "client", "open"} : SrEnter(t, fails)
    \/ \E transcript \in Transcripts, is_final \in BOOLEAN :
          RecognizeResult(t, transcript, is_final)
    \/ RecognizeEnd(t)
    \/ RecognizeRaise(t)
    \/ SrExit(t)
    \/ Classify(t)
    \/ \E fails \in BOOLEAN : ByeSpeak(t, fails)
    \/ ByeWait(t)
    \/ \E fails \in BOOLEAN : SendMessage(t, fails)
    \/ \E chunk_text \in Chunks : NextChunk(t, chunk_text)
    \/ ChunkRaise(t)
    \/ EndChunks(t)
    \/ \E fails \in BOOLEAN : SpeakSentence(t, fails)
    \/ \E fails \in BOOLEAN : SpeakTail(t, fails)
    \/ Wait(t)
    \/ Finally(t)

\* steps of the player thread
PlayerStep ==
    \/ PlayerTest
    \/ PlayerGet
    \/ \E fails \in BOOLEAN : PlayerWrite(fails)
    \/ PlayerTaskDone

\* steps of the main thread
RunStep ==
    \/ RunEnterWake
    \/ \E fails \in BOOLEAN : RunEnterTts(fails)
    \/ RunInterrupt
    \/ TtsExitBegin
    \/ TtsExitJoin
    \/ WakeExit
    \/ RunRecover

\* the whole program; the device delivers status-free frames
Next ==
    \/ \E keyword_index \in -1..(Len(Keywords) - 1), fails \in BOOLEAN :
          AudioCallback("none", keyword_index, fails)
    \/ \E t \in Threads : CommandStep(t)
    \/ PlayerStep
    \/ RunStep

Spec == Init /\ [][Next]_vars

\* The wake-word gate on its own: the device delivers frames with any status
\* while time passes and the main thread enters and leaves the with-block.
Statuses == {"none", "overflow", "other"}

GateNext ==
    \/ \E status \in Statuses, keyword_index \in -1..(Len(Keywords) - 1),
          fails \in BOOLEAN : AudioCallback(status, keyword_index, fails)
    \/ \E dt \in {ERROR_RESET_TIME, ERROR_RESET_TIME + 1} : Tick(dt)
    \/ RunStep
    \/ PlayerTest
    \/ PlayerGet

SpecGate == Init /\ [][GateNext]_vars

\* One conversational turn on its own: thread 1 has sent the command and
\* consumes a response whose chunks are any texts over SegAlphabet.
MaxChunkLen == 2  \* longest chunk text of SegChunks

SegAlphabet == {"a", ".", " "}

SegChunks ==
    UNION { [1..n -> SegAlphabet] : n \in 0..MaxChunkLen }

SegCommand == <<"h","i">>

SegInit ==
    /\ listening_for_command = TRUE
    /\ cmd = [t \in Threads |->
                IF t = 1
                THEN [NoThread EXCEPT !.pc = "chunks", !.command_text = <<SegCommand>>,
                                      !.accepted = <<[transcript |-> SegCommand,
                                                      is_final |-> TRUE]>>,
                                      !.sent = <<SegCommand>>,
                                      !.last = ResultSeen(SegCommand, TRUE)]
                ELSE NoThread]
    /\ run_pc = "body"
    /\ run_exc = "none"
    /\ wake_stream = "active"
    /\ porcupine = "live"
    /\ error_count = 0
    /\ last_error_time = 0
    /\ clock = StartTime
    /\ hits = <<0>>
    /\ calls = <<Keywords[1]>>
    /\ overflow_times = <<>>
    /\ sr_stream = "closed"
    /\ sr_audio = "terminated"
    /\ turns = 1
    /\ audio_queue = <<>>
    /\ unfinished = 0
    /\ playing = TRUE
    /\ pl_pc = "test"
    /\ pl_item = NoItem
    /\ tts_stream = "open"
    /\ tts_audio = "live"
    /\ put_count = 0
    /\ written = <<>>
    /\ stt_pc = "init"
    /\ stt_q = 0
    /\ stt_error_count = 0
    /\ stt_last_error_time = 0
    /\ env = [GOOGLE_API_KEY |-> "key", PICOVOICE_ACCESS_KEY |-> "key"]

SegNext ==
    \E t \in Threads :
       \/ \E chunk_text \in SegChunks : NextChunk(t, chunk_text)
       \/ EndChunks(t)
       \/ \E fails \in BOOLEAN : SpeakSentence(t, fails)
       \/ \E fails \in BOOLEAN : SpeakTail(t, fails)

SpecSeg == SegInit /\ [][SegNext]_vars

\* The two queue consumers side by side: SpeechToText.process_audio fed by
\* its callback, and the player thread of TextToSpeech, while time passes.
SttStep ==
    \/ SttStart
    \/ \E status \in Statuses : SttCallback(status)
    \/ SttGet
    \/ \E outcome \in {"final", "partial", "error"} : SttAccept(outcome)
    \/ SttInterrupt

ConsumerNext ==
    \/ SttStep
    \/ \E dt \in {ERROR_RESET_TIME, ERROR_RESET_TIME + 1} : Tick(dt)
    \/ RunStep
    \/ PlayerTest
    \/ PlayerGet

SpecConsumers == Init /\ [][ConsumerNext]_vars

\* The teardown of TextToSpeech during a turn: thread 1 speaks the sentences
\* of a response while the player thread plays them, and KeyboardInterrupt
\* makes run leave its with statement at any moment. The player thread is
\* scheduled as long as it can take a step, and so is the main thread inside
\* __exit__.
ExitNext ==
    \/ \E t \in Threads :
          \/ \E chunk_text \in Chunks : NextChunk(t, chunk_text)
          \/ EndChunks(t)
          \/ \E fails \in BOOLEAN : SpeakSentence(t, fails)
          \/ \E fails \in BOOLEAN : SpeakTail(t, fails)
          \/ Wait(t)
    \/ PlayerStep
    \/ RunInterrupt
    \/ TtsExitBegin
    \/ TtsExitJoin
    \/ WakeExit

SpecExit ==
    /\ SegInit
    /\ [][ExitNext]_vars
    /\ WF_vars(PlayerStep)
    /\ WF_vars(TtsExitBegin \/ TtsExitJoin)

\* The recovery path of run: an exception in the with-block leaves the with
\* statement through TextToSpeech.__exit__ and WakeWordDetector.__exit__, and
\* the while-loop enters both again.
ReenterNext == Next \/ RunBodyRaise

SpecReenter == Init /\ [][ReenterNext]_vars

\* The program from main(): AICompanion is constructed in any environment
\* and, when that succeeds, run() goes on as in Spec.
InitStep ==
    \/ InitGemini
    \/ \E fails \in {"no", "device", "create", "stream"} : InitWakeDetector(fails)
    \/ \E fails \in BOOLEAN : InitTts(fails)

MainNext == InitStep \/ Next

SpecMain == MainInit /\ [][MainNext]_vars

\* ------------------------------------------------------------------ claims
\* positions of a command thread inside a conversational turn
TurnPcs == {"send", "chunks", "speak", "tail", "wait"}

\* positions of a command thread inside a capture attempt
CapturePcs == {"sr_enter", "recognize", "sr_exit", "classify"}

\* C1: while listening_for_command is True the wake-word gate is suspended:
\* no step of that interval has the detector report a keyword or invokes the
\* trigger callback.
C1_GateSuspended ==
    [][listening_for_command => (calls' = calls /\ hits' = hits)]_vars

\* C2: the trigger callback has been invoked once for each status-free frame
\* for which the detector returned an index >= 0, with keywords[index], in
\* the same order, and for no other frame.
C2_CallbackPerDetection ==
    /\ Len(calls) = Len(hits)
    /\ \A i \in 1..Len(hits) : calls[i] = Keywords[hits[i] + 1]

\* C2 witness: two detections have been reported, one of them while a
\* command thread was already listening.
C2_Witness ==
    /\ Len(hits) >= 2
    /\ Len(calls) >= 2
    /\ listening_for_command

\* C3: the capture stream of the SpeechRecognizer is never open while the
\* input stream of the WakeWordDetector is active.
C3_ExclusiveDevice == sr_stream = "open" => wake_stream # "active"

\* C4 as stated: a command thread that has completed a turn captures no
\* further utterance (the session is Idle and a wake word is needed).
C4_IdleAfterTurn ==
    \A t \in Threads :
       cmd[t].prev = "turn" => cmd[t].pc \notin (CapturePcs \union TurnPcs)

\* C4 amended: after a completed turn listening_for_command is still True and
\* the same command thread goes on with the while-loop (the next capture
\* needs no wake word); a command thread reaches its finally clause only
\* through a stop phrase or an exception.
C4_TurnThenCapture ==
    \A t \in Threads :
       /\ (cmd[t].prev = "turn" /\ cmd[t].pc \notin {"none", "finally"})
             => listening_for_command
       /\ (cmd[t].prev = "turn" /\ cmd[t].pc \in {"none", "finally"})
             => cmd[t].err

\* C4 witness: with a single wake-word detection, the thread that completed
\* a turn has the capture stream open for the next utterance.
C4_Witness ==
    \E t \in Threads :
       /\ cmd[t].prev = "turn"
       /\ cmd[t].pc = "recognize"
       /\ sr_stream = "open"
       /\ listening_for_command
       /\ Len(calls) = 1

\* C5: an exception of the recognizer, the generator or the synthesizer takes
\* the command thread to its except/finally clauses (through
\* SpeechRecognizer.__exit__ when raised inside the with-block) without
\* touching the main thread, and when that thread ends the capture stream is
\* not open, listening_for_command is False and the main thread is where it
\* was.
C5_ErrorEndsTurn ==
    [][\A t \in Threads :
         /\ (~cmd[t].err /\ cmd'[t].err)
               => /\ cmd[t].pc \in (CapturePcs \union TurnPcs \union {"bye_speak"})
                  /\ cmd'[t].pc = IF cmd[t].pc = "recognize" THEN "sr_exit" ELSE "finally"
                  /\ UNCHANGED runVars
         /\ (cmd[t].err /\ cmd[t].pc = "sr_exit" /\ cmd'[t] # cmd[t])
               => (cmd'[t].pc = "finally" /\ sr_stream' = "closed")
         /\ (cmd[t].err /\ cmd[t].pc = "finally" /\ cmd'[t] # cmd[t])
               => /\ cmd'[t].pc = "none"
                  /\ ~listening_for_command'
                  /\ sr_stream' # "open"
                  /\ UNCHANGED runVars
      ]_vars

\* C5 witness: a command thread has ended through its except clause and the
\* session is Idle with the wake-word gate still working.
C5_Witness ==
    \E t \in Threads :
       /\ cmd[t].pc = "none"
       /\ cmd[t].err
       /\ ~listening_for_command
       /\ sr_stream = "closed"
       /\ run_pc = "body"
       /\ wake_stream = "active"
       /\ porcupine = "live"

\* C6 as stated: a command thread whose capture attempt ended without a
\* transcript starts no further capture attempt (the session is Idle).
C6_IdleAfterMiss ==
    \A t \in Threads :
       cmd[t].prev = "missed" => cmd[t].pc \notin (CapturePcs \union TurnPcs)

\* C6 amended: the generator is invoked only with a non-empty command text,
\* and after a capture attempt without a transcript listening_for_command is
\* still True and the same thread goes on with the while-loop (it ends only
\* through an exception or a stop phrase).
C6_MissThenCapture ==
    \A t \in Threads :
       /\ cmd[t].pc \in TurnPcs
             => (cmd[t].command_text # None /\ Strip(cmd[t].command_text[1]) # <<>>)
       /\ (cmd[t].prev = "missed" /\ cmd[t].pc \notin {"none", "finally"})
             => listening_for_command
       /\ (cmd[t].prev = "missed" /\ cmd[t].pc \in {"none", "finally"})
             => cmd[t].err

\* C6 witness: after an attempt without a transcript the same thread has the
\* capture stream open again, with a single wake-word detection so far.
C6_Witness ==
    \E t \in Threads :
       /\ cmd[t].prev = "missed"
       /\ cmd[t].pc = "recognize"
       /\ sr_stream = "open"
       /\ listening_for_command
       /\ Len(calls) = 1

\* the upper-case form of a lower-case letter
UpperOf(c) == UpperChars[CHOOSE i \in 1..Len(LowerChars) : LowerChars[i] = c]

\* the texts that equal `phrase` up to the case of their letters
CaseVariants(phrase) ==
    { s \in [1..Len(phrase) -> {phrase[i] : i \in 1..Len(phrase)}
                                 \union {UpperOf(phrase[i]) : i \in 1..Len(phrase)}] :
        \A i \in 1..Len(phrase) : s[i] \in {phrase[i], UpperOf(phrase[i])} }

\* a trimmed transcript that asks to end the session
IsTerminationRequest(text) == \E phrase \in StopPhrases : text \in CaseVariants(phrase)

\* C7: a command text is answered with "Goodbye!" exactly when it equals
\* "goodbye", "exit" or "stop" up to case, and with a conversational turn
\* otherwise; after the goodbye the thread ends and the session is Idle.
C7_StopPhrase ==
    \A t \in Threads :
       /\ cmd[t].pc \in {"bye_speak", "bye_wait"}
             => (cmd[t].command_text # None
                 /\ IsTerminationRequest(cmd[t].command_text[1]))
       /\ cmd[t].pc \in TurnPcs
             => (cmd[t].command_text # None
                 /\ ~IsTerminationRequest(cmd[t].command_text[1]))
       /\ cmd[t].prev = "bye" => (cmd[t].pc \in {"finally", "none"} /\ ~cmd[t].err)
       /\ (cmd[t].prev = "bye" /\ cmd[t].pc = "none") => ~listening_for_command

\* C7 witness: the transcript " STOP " has been answered with the goodbye,
\* which is queued for playback.
C7_Witness ==
    \E t \in Threads :
       /\ cmd[t].pc = "bye_wait"
       /\ cmd[t].command_text = << <<"S","T","O","P">> >>
       /\ cmd[t].spoken = <<Goodbye>>

\* the buffers speak() has enqueued so far have all been written
AllWritten == \A i \in 1..put_count : \E j \in 1..Len(written) : written[j] = i

\* C8 as stated: when the response is complete, the texts passed to
\* tts.speak, concatenated in call order, are the response text.
C8_ExactRoundTrip ==
    \A t \in Threads :
       cmd[t].pc = "wait" => Concat(cmd[t].spoken) = cmd[t].response_text

\* C8 amended: when the response is complete, the texts passed to tts.speak,
\* concatenated in call order, are the response text up to whitespace: with
\* all whitespace removed the two are equal.
C8_RoundTripModuloWhitespace ==
    \A t \in Threads :
       cmd[t].pc = "wait"
          => RemoveWs(Concat(cmd[t].spoken)) = RemoveWs(cmd[t].response_text)

\* C8 witness: a complete response of which two or more fragments were
\* spoken and whose concatenation differs from the response text.
C8_Witness ==
    \E t \in Threads :
       /\ cmd[t].pc = "wait"
       /\ Len(cmd[t].spoken) >= 2
       /\ Concat(cmd[t].spoken) # cmd[t].response_text

\* C9: TextToSpeech.wait() can return only when every buffer that speak()
\* has enqueued so far has been written to the output stream.
C9_WaitAfterPlayback ==
    \A t \in Threads : (ENABLED Wait(t) \/ ENABLED ByeWait(t)) => AllWritten

\* C9 witness: wait() can return after the two or more buffers of the turn
\* have been played.
C9_Witness ==
    \E t \in Threads :
       /\ ENABLED Wait(t)
       /\ Len(cmd[t].spoken) >= 2
       /\ Len(written) >= 2
       /\ playing

\* C10: during a turn the texts passed to tts.speak are, up to whitespace, a
\* prefix of the response generated so far (text order), and the buffers
\* written to the output stream are the first buffers enqueued, in enqueue
\* order, each once.
C10_InOrder ==
    /\ Len(written) <= put_count
    /\ \A j \in 1..Len(written) : written[j] = j
    /\ \A i \in 1..Len(audio_queue) : \A j \in 1..Len(audio_queue) :
          (i < j /\ audio_queue[i].kind = "audio" /\ audio_queue[j].kind = "audio")
             => audio_queue[i].id < audio_queue[j].id
    /\ \A t \in Threads :
          cmd[t].pc \in TurnPcs
             => IsPrefix(RemoveWs(Concat(cmd[t].spoken)),
                         RemoveWs(cmd[t].response_text))

\* C10 witness: two buffers of one turn have been written.
C10_Witness ==
    \E t \in Threads :
       /\ cmd[t].pc \in TurnPcs
       /\ Len(cmd[t].spoken) >= 2
       /\ Len(written) >= 2

\* the overflow tally is at or above the threshold and the window that
\* started at the last overflow has not expired
TallySuspends ==
    /\ error_count >= MAX_ERRORS
    /\ clock - last_error_time <= ERROR_RESET_TIME

\* C11: while the overflow tally is at or above MAX_ERRORS and the window has
\* not expired, no frame is passed on to a detection and the trigger callback
\* is not invoked.
C11_SuspendedAtThreshold ==
    [][TallySuspends => (hits' = hits /\ calls' = calls)]_vars

\* C12: the tally is at or above the threshold of MAX_ERRORS only when the
\* latest MAX_ERRORS overflow frames fall within one window of
\* ERROR_RESET_TIME seconds, and a tally above 1 means that the latest
\* overflow came no more than ERROR_RESET_TIME seconds after the one before.
C12_TallyWithinWindow ==
    /\ error_count >= MAX_ERRORS
          => /\ Len(overflow_times) = MAX_ERRORS
             /\ overflow_times[MAX_ERRORS] - overflow_times[1] <= ERROR_RESET_TIME
    /\ error_count > 1
          => /\ Len(overflow_times) >= 2
             /\ overflow_times[Len(overflow_times)]
                   - overflow_times[Len(overflow_times) - 1] <= ERROR_RESET_TIME

\* C13: whenever the main thread is inside the with-block of run, also after
\* the recovery from an exception, the session works: the input stream is
\* active and the detector handle the frames are passed to is live, so that
\* a spoken wake word is detected.
C13_WorkingAfterRecovery ==
    run_pc = "body" => (wake_stream = "active" /\ porcupine = "live")

\* positions of a command thread inside TextToSpeech.wait()
WaitPcs == {"wait", "bye_wait"}

\* C14: once TextToSpeech.__exit__ has stopped the queue and joined the
\* player thread, no command thread is held in wait(): whatever was queued at
\* the stop, no task is left unfinished (nothing would ever mark it done).
C14_ExitUnblocksWaiters ==
    (run_pc \in {"wake_exit", "done"} /\ pl_pc = "done")
       => \A t \in Threads : cmd[t].pc \in WaitPcs => unfinished = 0

\* C15: outside the with-block of a component none of its hardware handles
\* is left open: with no command thread inside `with self.speech_recognizer`
\* the capture stream is not open and its PyAudio instance not live, and
\* with the main thread outside `with self.tts` the output stream is not
\* open and its PyAudio instance not live.
C15_HandlesReleased ==
    /\ (\A t \in Threads : cmd[t].pc \notin {"recognize", "sr_exit"})
          => (sr_stream # "open" /\ sr_audio # "live")
    /\ run_pc \in {"enter_wake", "enter_tts", "wake_exit", "recover", "done"}
          => (tts_stream # "open" /\ tts_audio # "live")

\* every thread of the program has ended: run has returned, the player
\* thread is not running and no command thread is alive
Terminated ==
    /\ run_pc = "done"
    /\ pl_pc \in {"none", "done", "dead"}
    /\ LiveThreads = {}

C17_BoundedPop ==
    /\ pl_pc = "get" => ENABLED PlayerGet
    /\ stt_pc = "get" => ENABLED SttGet

\* C18: at most one command thread exists at a time, and so at most one is
\* in a conversational turn (one writer of the chat history); while a thread
\* exists listening_for_command is True, so that a wake word starts no
\* second one.
C18_SingleCommandThread ==
    /\ Cardinality(LiveThreads) <= 1
    /\ Cardinality({t \in Threads : cmd[t].pc \in TurnPcs}) <= 1
    /\ LiveThreads # {} => listening_for_command

\* C18 witness: the trigger callback has been invoked a second time while
\* the one command thread was in a turn.
C18_Witness ==
    /\ Len(calls) >= 2
    /\ listening_for_command
    /\ \E t \in Threads : cmd[t].pc \in TurnPcs /\ LiveThreads = {t}

\* C19: once TextToSpeech.__exit__ has been called, the playback loop
\* eventually exits and the join returns, wherever the player thread was and
\* whatever is in the queue.
C19_ExitJoinsPlayer ==
    (run_pc = "tts_exit") ~> (run_pc = "wake_exit" /\ pl_pc \in {"done", "dead"})

\* C19 witness: the join has returned and the stream is closed although a
\* buffer and the sentinel are still in the queue, after a buffer was
\* written.
C19_Witness ==
    /\ run_pc = "wake_exit"
    /\ pl_pc = "done"
    /\ tts_stream = "closed"
    /\ Len(audio_queue) >= 2
    /\ written # <<>>

\* C20: segmentation is incremental and splits at every terminator: while
\* the response is being generated every text passed to tts.speak ends with
\* '.', '!' or '?' and holds no other terminator; when the next chunk is
\* about to be consumed, or the generation has ended, no fragment is pending,
\* the carried-over sentence_buffer holds no terminator, and the texts spoken
\* followed by the buffer are the response generated so far, up to whitespace.
C20_IncrementalSegmentation ==
    \A t \in Threads :
       /\ cmd[t].pc \in {"chunks", "speak", "tail"}
             => \A i \in 1..Len(cmd[t].spoken) :
                   LET f == cmd[t].spoken[i]
                   IN  /\ f # <<>>
                       /\ f[Len(f)] \in Terminators
                       /\ \A k \in 1..(Len(f) - 1) : f[k] \notin Terminators
       /\ cmd[t].pc \in {"chunks", "tail"}
             => /\ cmd[t].sentences = <<>>
                /\ ~HasTerminator(cmd[t].sentence_buffer)
                /\ RemoveWs(Concat(cmd[t].spoken) \o cmd[t].sentence_buffer)
                      = RemoveWs(cmd[t].response_text)

\* C20 witness: two fragments have been spoken before the end of the
\* generation and an incomplete sentence is carried over.
C20_Witness ==
    \E t \in Threads :
       /\ cmd[t].pc = "chunks"
       /\ Len(cmd[t].spoken) >= 2
       /\ cmd[t].sentence_buffer # <<>>

\* `text` is one of the stop phrases, letter by letter up to case
SaysStopPhrase(text) ==
    \E phrase \in StopPhrases :
       /\ Len(text) = Len(phrase)
       /\ \A i \in 1..Len(phrase) : text[i] \in {phrase[i], UpperOf(phrase[i])}

\* C21: in one iteration of the conversation loop the generator is invoked
\* at most once; it has been invoked exactly once when the thread is past
\* send_message, and not at all during the capture, before send_message or on
\* the goodbye path; the invocation is for a final result whose trimmed text
\* is non-empty and no stop phrase, with that trimmed text; and every such
\* result is followed by the invocation.
C21_GeneratorOncePerTurn ==
    \A t \in Threads :
       LET c == cmd[t]
           usable == /\ c.accepted # None
                     /\ c.accepted[1].is_final
                     /\ Strip(c.accepted[1].transcript) # <<>>
                     /\ ~SaysStopPhrase(Strip(c.accepted[1].transcript))
       IN  /\ Len(c.sent) <= 1
           /\ c.pc \in {"chunks", "speak", "tail", "wait"} => Len(c.sent) = 1
           /\ c.pc \in (CapturePcs \union {"send", "bye_speak", "bye_wait"})
                 => c.sent = <<>>
           /\ c.sent # <<>>
                 => (usable /\ c.sent[1] = Strip(c.accepted[1].transcript))
           /\ (usable /\ c.pc \notin {"sr_exit", "classify", "send"})
                 => Len(c.sent) = 1

\* C21 witness: a final transcript with surrounding whitespace has been sent
\* to the generator, trimmed, and the response is being consumed.
C21_Witness ==
    \E t \in Threads :
       /\ cmd[t].pc = "chunks"
       /\ Len(cmd[t].sent) = 1
       /\ cmd[t].accepted[1].transcript # cmd[t].sent[1]

\* C22: a capture goes on only while every result consumed so far was
\* partial or blank; the first result that is final with text after trimming
\* sets command_text and ends the capture, so that no further result is
\* consumed in that attempt.
C22_FirstFinalEndsCapture ==
    \A t \in Threads :
       LET c == cmd[t]
           usable == c.last # None /\ c.last[1].is_final /\ ~c.last[1].blank
       IN  /\ (c.pc = "recognize" /\ c.results > 0) => (c.last # None /\ ~usable)
           /\ usable => /\ c.pc # "recognize"
                        /\ c.accepted # None
                        /\ c.command_text = <<Strip(c.accepted[1].transcript)>>
           /\ c.accepted # None => usable
           /\ c.pc = "recognize" => c.command_text = None

\* C22 witness: the capture stream is still open, the first result was
\* passed over and the second one has ended the capture.
C22_Witness ==
    \E t \in Threads :
       /\ cmd[t].pc = "sr_exit"
       /\ sr_stream = "open"
       /\ cmd[t].results = 2
       /\ cmd[t].accepted # None

\* C23: while a command thread has the capture stream open, every buffer it
\* has enqueued through tts.speak before (and every buffer enqueued before
\* those) has been written to the output stream.
C23_CaptureAfterPlayback ==
    \A t \in Threads :
       (cmd[t].pc \in {"recognize", "sr_exit"} /\ sr_stream = "open")
          => \A i \in 1..cmd[t].last_put :
                \E j \in 1..Len(written) : written[j] = i

\* C23 witness: after a turn of two sentences the same thread has opened the
\* capture stream for the next utterance.
C23_Witness ==
    \E t \in Threads :
       /\ cmd[t].pc = "recognize"
       /\ sr_stream = "open"
       /\ cmd[t].last_put >= 2
       /\ Len(written) >= 2

\* C24: with GOOGLE_API_KEY set and PICOVOICE_ACCESS_KEY absent, the
\* construction of AICompanion does not get past the test of the access key:
\* it is at or before that test, or it has failed with the ValueError that
\* names PICOVOICE_ACCESS_KEY (the WakeWordDetector is not constructed).
C24_MissingAccessKeyNamed ==
    (~Falsy(env["GOOGLE_API_KEY"]) /\ Falsy(env["PICOVOICE_ACCESS_KEY"]))
       => \/ run_pc \in {"init", "init_wake"} /\ porcupine = "none"
          \/ /\ run_pc = "failed"
             /\ run_exc = "ValueError: PICOVOICE_ACCESS_KEY not found"
             /\ porcupine = "none"


\* C25: after TextToSpeech has been exited and entered again the playback
\* loop is running whenever the main thread is in the with-block: it has not
\* been ended by a sentinel that an earlier __exit__ left in the queue.
C25_PlaybackAfterReentry ==
    run_pc = "body" => pl_pc # "done"


\* C26: every text passed to tts.speak is non-empty after trimming, and when
\* the response is complete the texts, concatenated in call order, equal the
\* response text once all whitespace is removed from both.
C26_TrimmedRoundTrip ==
    \A t \in Threads :
       /\ \A i \in 1..Len(cmd[t].spoken) : Strip(cmd[t].spoken[i]) # <<>>
       /\ cmd[t].pc = "wait"
             => RemoveWs(Concat(cmd[t].spoken)) = RemoveWs(cmd[t].response_text)

\* C26 witness: a complete response of which a fragment was spoken and whose
\* remainder, all whitespace, was not passed to tts.speak.
C26_Witness ==
    \E t \in Threads :
       /\ cmd[t].pc = "wait"
       /\ cmd[t].spoken # <<>>
       /\ cmd[t].sentence_buffer # <<>>
       /\ Strip(cmd[t].sentence_buffer) = <<>>


\* C27: when stream.write has raised in the playback loop while the main
\* thread is in the with-block, a command thread that is in wait() can
\* return from it (no other step can decrement unfinished any more), so
\* that the thread reaches its finally clause.
C27_WriteFailureLeavesWait ==
    (run_pc = "body" /\ pl_pc = "dead")
       => \A t \in Threads : cmd[t].pc \in WaitPcs => WaitReturns

====
